---- MODULE Spec2Model ----
(***************************************************************************)
(* Model of deep_identity_master_app.py: the result store reader           *)
(* (load_results), the credential resolution (get_openai_client), the      *)
(* report generator (generate_text_report) and one run of the dashboard    *)
(* (main).                                                                 *)
(*                                                                         *)
(* Python values are tagged records: [t |-> "null"], [t |-> "int", v],     *)
(* [t |-> "str", v] (v a sequence of text pieces), [t |-> "list", v] (v a   *)
(* sequence) and [t |-> "dict", v] (v a function on a set of keys).  An     *)
(* operation that raises yields [t |-> "raise", exc |-> <exception type>,   *)
(* msg |-> <str(e)>].  Cyrillic names are transliterated and the warning    *)
(* sign is written "(!)", since the strings here are ASCII only.           *)
(***************************************************************************)
EXTENDS Integers, Sequences, FiniteSets, TLC

VARIABLES file, secrets, environ, pc, results, rows, idx_selected, data,
          client, table_text, prompt, resp, report, gen_exit, calls, exc

vars == << file, secrets, environ, pc, results, rows, idx_selected, data,
           client, table_text, prompt, resp, report, gen_exit, calls, exc >>

-----------------------------------------------------------------------------
(* Bounds of the model *)

MaxScore == 1
MaxRecords == 2
MaxChoices == 2

-----------------------------------------------------------------------------
(* Program constants *)

POTENTIALS == << "Ametist", "Granat", "Citrin", "Sapfir", "Geliodor",
                 "Izumrud", "Yantar", "Rubin", "Shungit" >>

COLUMNS == << "c1", "c2", "c3" >>

WARN == "(!)"

MISSING_KEY_TEXT ==
  << WARN,
     " OpenAI API kljuch ne najden (ni v st.secrets, ni v peremennoj okruzhenija OPENAI_API_KEY).",
     "\n",
     "Dobav' kljuch v nastrojki, chtoby generirovat' otchjoty." >>

CALL_ERROR_PREFIX == " Oshibka pri obrashchenii k OpenAI: "

-----------------------------------------------------------------------------
(* Python values *)

PyNone == [t |-> "null"]
PyInt(n) == [t |-> "int", v |-> n]
PyStr(s) == [t |-> "str", v |-> s]
PyList(s) == [t |-> "list", v |-> s]
PyDict(f) == [t |-> "dict", v |-> f]
EmptyDict == PyDict(<< >>)
Unset == [t |-> "unset"]

Raise(e, m) == [t |-> "raise", exc |-> e, msg |-> m]
IsRaise(x) == x.t = "raise"

\* bool(x): None, 0, "", [] and {} are false, everything else is true
Truthy(x) ==
  CASE x.t = "null" -> FALSE
    [] x.t = "int" -> x.v # 0
    [] x.t = "str" -> Len(x.v) > 0
    [] x.t = "list" -> Len(x.v) > 0
    [] x.t = "dict" -> DOMAIN x.v # {}
    [] OTHER -> TRUE

\* d.get(k, default); AttributeError when d has no method get
PyGet(d, k, default) ==
  IF IsRaise(d) THEN d
  ELSE IF d.t # "dict" THEN Raise("AttributeError", "object has no attribute 'get'")
  ELSE IF k \in DOMAIN d.v THEN d.v[k] ELSE default

\* a + b
PyAdd(a, b) ==
  IF IsRaise(a) THEN a
  ELSE IF IsRaise(b) THEN b
  ELSE IF a.t = "int" /\ b.t = "int" THEN PyInt(a.v + b.v)
  ELSE IF a.t = "str" /\ b.t = "str" THEN PyStr(a.v \o b.v)
  ELSE IF a.t = "list" /\ b.t = "list" THEN PyList(a.v \o b.v)
  ELSE Raise("TypeError", "unsupported operand type(s) for +")

Min(a, b) == IF a < b THEN a ELSE b

\* x[:19]
Slice19(x) ==
  IF IsRaise(x) THEN x
  ELSE IF x.t \in {"str", "list"}
       THEN [t |-> x.t, v |-> SubSeq(x.v, 1, Min(19, Len(x.v)))]
  ELSE Raise("TypeError", "object is not subscriptable")

\* str(n) for an integer n >= 0: its decimal digits
RECURSIVE Digits(_)
Digits(n) ==
  LET d == << "0", "1", "2", "3", "4", "5", "6", "7", "8", "9" >>
  IN  IF n < 10 THEN << d[n + 1] >> ELSE Digits(n \div 10) \o << d[(n % 10) + 1] >>

\* the text an f-string puts for {x}
Format(x) ==
  CASE x.t = "int" -> IF x.v < 0 THEN << "-" >> \o Digits(-x.v) ELSE Digits(x.v)
    [] x.t = "str" -> x.v
    [] x.t = "null" -> << "None" >>
    [] OTHER -> << "<repr>" >>

-----------------------------------------------------------------------------
(* get_openai_client *)

\* st.secrets.get("OPENAI_API_KEY", None) inside try/except Exception
SecretsGet(sec) == IF IsRaise(sec) THEN PyNone ELSE sec

OpenAI(api_key) == [t |-> "client", api_key |-> api_key]


\* variant: the second "if not api_key" test is left out
get_openai_client_nocheck(sec, env) ==
  LET k1 == SecretsGet(sec)
      k2 == IF ~Truthy(k1) THEN env ELSE k1
  IN  OpenAI(k2)

\* variant: the environment is asked before the secret store
get_openai_client_envfirst(sec, env) ==
  LET k1 == env
      k2 == IF ~Truthy(k1) THEN SecretsGet(sec) ELSE k1
  IN  IF ~Truthy(k2) THEN PyNone ELSE OpenAI(k2)

get_openai_client(sec, env) ==
  LET k1 == SecretsGet(sec)
      k2 == IF ~Truthy(k1) THEN env ELSE k1
  IN  IF ~Truthy(k2) THEN PyNone ELSE OpenAI(k2)

-----------------------------------------------------------------------------
(* load_results *)

\* open(RESULTS_FILE) followed by json.load(f)
json_load(f) ==
  CASE f.kind = "unreadable" -> Raise("PermissionError", "Permission denied")
    [] f.kind = "invalid" -> Raise("JSONDecodeError", "Expecting value")
    [] OTHER -> f.value


\* variant: json.load outside any try
load_results_notry(f) ==
  IF f.kind = "absent" THEN PyList(<< >>) ELSE json_load(f)

load_results(f) ==
  IF f.kind = "absent" THEN PyList(<< >>)
  ELSE LET r == json_load(f)
       IN  IF IsRaise(r) THEN PyList(<< >>) ELSE r

-----------------------------------------------------------------------------
(* main: the overview table *)

RECURSIVE SetToSeq(_)
SetToSeq(S) ==
  IF S = {} THEN << >>
  ELSE LET x == CHOOSE y \in S : TRUE IN << x >> \o SetToSeq(S \ {x})

\* the items a for loop draws from x, as a list
Iterate(x) ==
  CASE x.t = "list" -> x
    [] x.t = "dict" -> PyList([i \in 1..Cardinality(DOMAIN x.v) |->
                                 PyStr(<< SetToSeq(DOMAIN x.v)[i] >>)])
    [] x.t = "str" -> PyList([i \in 1..Len(x.v) |-> PyStr(<< x.v[i] >>)])
    [] OTHER -> Raise("TypeError", "object is not iterable")

\* combined.get(p, {}).get(c, 0)
Cell(combined, p, c) == PyGet(PyGet(combined, p, EmptyDict), c, PyInt(0))

\* sum(... for p in POTENTIALS), from potential number i on, acc so far
RECURSIVE SumFrom(_, _, _)
SumFrom(combined, i, acc) ==
  IF i > Len(POTENTIALS) \/ IsRaise(acc) THEN acc
  ELSE LET p == POTENTIALS[i]
           term == PyAdd(PyAdd(Cell(combined, p, "c1"), Cell(combined, p, "c2")),
                         Cell(combined, p, "c3"))
       IN  IF IsRaise(term) THEN term
           ELSE SumFrom(combined, i + 1, PyAdd(acc, term))


\* variant: every value of a row is added, sum(row.values())
RECURSIVE SumValues(_, _, _)
SumValues(row, keys, acc) ==
  IF keys = {} \/ IsRaise(acc) THEN acc
  ELSE LET k == CHOOSE x \in keys : TRUE
       IN  SumValues(row, keys \ {k}, PyAdd(acc, row.v[k]))

RECURSIVE SumRowsFrom(_, _, _)
SumRowsFrom(combined, i, acc) ==
  IF i > Len(POTENTIALS) \/ IsRaise(acc) THEN acc
  ELSE LET row == PyGet(combined, POTENTIALS[i], EmptyDict)
       IN  IF IsRaise(row) THEN row
           ELSE IF row.t # "dict" THEN Raise("AttributeError", "object has no attribute 'values'")
           ELSE SumRowsFrom(combined, i + 1, SumValues(row, DOMAIN row.v, acc))

total_score_allvalues(combined) == SumRowsFrom(combined, 1, PyInt(0))

total_score(combined) == SumFrom(combined, 1, PyInt(0))

FirstRaise(s) ==
  IF \E i \in 1..Len(s) : IsRaise(s[i])
  THEN s[CHOOSE i \in 1..Len(s) : IsRaise(s[i]) /\ \A j \in 1..(i - 1) : ~IsRaise(s[j])]
  ELSE PyNone

\* one pass of the loop body for record r at position idx
OverviewRow(idx, r) ==
  LET combined == PyGet(r, "combined", EmptyDict)
      total == IF IsRaise(combined) THEN combined ELSE total_score(combined)
      date == Slice19(PyGet(r, "timestamp", PyStr(<< >>)))
      name == PyGet(r, "name", PyStr(<< >>))
      contact == PyGet(r, "contact", PyStr(<< >>))
      bad == FirstRaise(<< combined, total, date, name, contact >>)
  IN  IF IsRaise(bad) THEN bad
      ELSE [t |-> "row", idx |-> idx, date |-> date, name |-> name,
            contact |-> contact, total |-> total]

\* rows after the loop over enumerate(results)
Overview(res) ==
  LET items == Iterate(res)
  IN  IF IsRaise(items) THEN items
      ELSE LET rs == [i \in 1..Len(items.v) |-> OverviewRow(i - 1, items.v[i])]
               bad == FirstRaise(rs)
           IN  IF IsRaise(bad) THEN bad ELSE PyList(rs)

-----------------------------------------------------------------------------
(* main: the detail view *)

\* results[int(idx_selected)]
Entry(res, idx) ==
  IF res.t \in {"list", "str"} /\ idx + 1 \in 1..Len(res.v)
  THEN (IF res.t = "list" THEN res.v[idx + 1] ELSE PyStr(<< res.v[idx + 1] >>))
  ELSE Raise("KeyError", "no such item")

Header(entry) ==
  FirstRaise(<< PyGet(entry, "name", PyStr(<< >>)),
                PyGet(entry, "contact", PyStr(<< >>)),
                Slice19(PyGet(entry, "timestamp", PyStr(<< >>))) >>)

GridRow(combined, p) ==
  LET row == PyGet(combined, p, EmptyDict)
      c1 == PyGet(row, "c1", PyInt(0))
      c2 == PyGet(row, "c2", PyInt(0))
      c3 == PyGet(row, "c3", PyInt(0))
  IN  IF IsRaise(c1) THEN c1
      ELSE [t |-> "gridrow", potential |-> p, c1 |-> c1, c2 |-> c2, c3 |-> c3]

Grid(combined) ==
  LET rs == [i \in 1..Len(POTENTIALS) |-> GridRow(combined, POTENTIALS[i])]
      bad == FirstRaise(rs)
  IN  IF IsRaise(bad) THEN bad ELSE PyList(rs)

-----------------------------------------------------------------------------
(* generate_text_report: the prompt *)


\* variant: the c3 column reads the c2 key
TableLine_c2twice(combined, p) ==
  LET row == PyGet(combined, p, EmptyDict)
      c1 == PyGet(row, "c1", PyInt(0))
      c2 == PyGet(row, "c2", PyInt(0))
      c3 == PyGet(row, "c2", PyInt(0))
  IN  IF IsRaise(c1) THEN c1
      ELSE PyStr(<< p, ": c1=" >> \o Format(c1) \o << "  c2=" >> \o Format(c2)
                 \o << "  c3=" >> \o Format(c3))

TableLine(combined, p) ==
  LET row == PyGet(combined, p, EmptyDict)
      c1 == PyGet(row, "c1", PyInt(0))
      c2 == PyGet(row, "c2", PyInt(0))
      c3 == PyGet(row, "c3", PyInt(0))
  IN  IF IsRaise(c1) THEN c1
      ELSE PyStr(<< p, ": c1=" >> \o Format(c1) \o << "  c2=" >> \o Format(c2)
                 \o << "  c3=" >> \o Format(c3))

\* "\n".join(lines)
RECURSIVE Join(_)
Join(lines) ==
  IF Len(lines) = 0 THEN << >>
  ELSE IF Len(lines) = 1 THEN lines[1].v
  ELSE lines[1].v \o << "\n" >> \o Join(Tail(lines))

TableText(combined) ==
  LET lines == [i \in 1..Len(POTENTIALS) |-> TableLine(combined, POTENTIALS[i])]
      bad == FirstRaise(lines)
  IN  IF IsRaise(bad) THEN bad ELSE PyStr(Join(lines))

PROMPT_HEAD == "Ty - master sistemy potencialov ... Vot chislovaja karta po potencialam:\n\n"
PROMPT_MID == "\n\nA vot svobodnye otvety cheloveka po trjom blokam:\n\n\"\"\""
PROMPT_TAIL == "\"\"\"\n\n\nSdelaj strukturirovannyj otchjot: ... Opirajsja i na cifry, i na tekst.\n"

Prompt(table, full_text) ==
  PyStr(<< PROMPT_HEAD >> \o table.v \o << PROMPT_MID >> \o Format(full_text)
        \o << PROMPT_TAIL >>)

-----------------------------------------------------------------------------
(* generate_text_report: the service call and its result *)

\* resp.choices[0].message.content

\* variant: the last completion is taken, resp.choices[-1]
FirstContent_last(r) ==
  IF IsRaise(r) THEN r
  ELSE IF r.choices.t # "list"
       THEN Raise("TypeError", "'NoneType' object is not subscriptable")
  ELSE IF Len(r.choices.v) = 0 THEN Raise("IndexError", "list index out of range")
  ELSE r.choices.v[Len(r.choices.v)]

FirstContent(r) ==
  IF IsRaise(r) THEN r
  ELSE IF r.choices.t # "list"
       THEN Raise("TypeError", "'NoneType' object is not subscriptable")
  ELSE IF Len(r.choices.v) = 0 THEN Raise("IndexError", "list index out of range")
  ELSE r.choices.v[1]

\* f"(!) Oshibka pri obrashchenii k OpenAI: {e}"

\* variant: the warning without the error's text
CallErrorText_nodetail(e) == PyStr(<< WARN, CALL_ERROR_PREFIX >>)

CallErrorText(e) == PyStr(<< WARN, CALL_ERROR_PREFIX, e.msg >>)

-----------------------------------------------------------------------------
(* The inputs of one run: the store file, the credential sources, the      *)
(* operator's choices and the behaviour of the text-generation service     *)

AxisKeys == {"c1", "c2", "c3", "c4"}
PotKeys == {"Ametist", "Rubin", "Kvarc"}

Scores == {PyInt(n) : n \in 0..MaxScore}
ScoreRows == UNION {{PyDict(f) : f \in [S -> Scores]} : S \in SUBSET AxisKeys}

\* Rubin = (3,1,0), an unknown axis and an unknown potential beside it
ExampleCombined ==
  PyDict([k \in {"Rubin", "Kvarc"} |->
    IF k = "Rubin"
    THEN PyDict([c \in {"c1", "c2", "c3", "c4"} |->
           CASE c = "c1" -> PyInt(3) [] c = "c2" -> PyInt(1)
             [] c = "c3" -> PyInt(0) [] OTHER -> PyStr(<< "x" >>)])
    ELSE PyInt(7)])

\* every potential listed, c3 left out for some, scores above nine
FullCombined ==
  PyDict([k \in {POTENTIALS[i] : i \in 1..Len(POTENTIALS)} |->
    LET i == CHOOSE j \in 1..Len(POTENTIALS) : POTENTIALS[j] = k
    IN  IF i % 2 = 0
        THEN PyDict([c \in {"c1", "c2"} |-> IF c = "c1" THEN PyInt(i) ELSE PyInt(10 + i)])
        ELSE PyDict([c \in {"c1", "c2", "c3"} |->
               CASE c = "c1" -> PyInt(i) [] c = "c2" -> PyInt(0) [] OTHER -> PyInt(2 * i)])])

Combineds ==
  {EmptyDict, ExampleCombined, FullCombined}
    \cup {PyDict([k \in {p} |-> r]) : p \in PotKeys, r \in ScoreRows}

TIMESTAMP ==
  PyStr(<< "2", "0", "2", "4", "-", "0", "5", "-", "0", "1", "T", "1", "2", ":",
           "3", "4", ":", "5", "6", ".", "7", "8", "9", "0", "1", "2" >>)

Record(combined, timestamp) ==
  PyDict([k \in {"name", "contact", "timestamp", "combined", "text"} |->
    CASE k = "name" -> PyStr(<< "Client A" >>)
      [] k = "contact" -> PyStr(<< "a@example.org" >>)
      [] k = "timestamp" -> timestamp
      [] k = "combined" -> combined
      [] OTHER -> PyStr(<< "detstvo ...", "\n", "rabota ..." >>)])

OnlyCombined(combined) == PyDict([k \in {"combined"} |-> combined])

WellFormedRecords ==
  {Record(c, TIMESTAMP) : c \in Combineds} \cup {EmptyDict, OnlyCombined(ExampleCombined)}

\* parseable entries that are not well-formed records
DamagedRecords ==
  { PyInt(1), PyNone, PyStr(<< "r" >>),
    Record(ExampleCombined, PyInt(1714566896)),
    Record(ExampleCombined, PyNone),
    Record(PyList(<< >>), TIMESTAMP),
    Record(PyNone, TIMESTAMP),
    OnlyCombined(PyDict([k \in {"Rubin"} |-> PyInt(5)])),
    OnlyCombined(PyDict([k \in {"Rubin"} |-> PyDict([c \in {"c1"} |-> PyStr(<< "3" >>)])])),
    OnlyCombined(PyDict([k \in {"Shungit"} |-> PyDict([c \in {"c2"} |-> PyNone])])) }

ShortRecords ==
  { Record(ExampleCombined, TIMESTAMP), EmptyDict, OnlyCombined(FullCombined), PyInt(1) }

RECURSIVE SeqsOfLen(_, _)
SeqsOfLen(S, n) ==
  IF n = 0 THEN {<< >>}
  ELSE {<< x >> \o s : x \in S, s \in SeqsOfLen(S, n - 1)}

JsonValues ==
  { PyList(<< >>), EmptyDict, PyNone, PyInt(0), PyInt(42), PyStr(<< "a", "b" >>),
    PyDict([k \in {"a"} |-> PyInt(1)]) }
    \cup {PyList(<< r >>) : r \in WellFormedRecords \cup DamagedRecords}
    \cup UNION {{PyList(s) : s \in SeqsOfLen(ShortRecords, n)} : n \in 2..MaxRecords}

Files ==
  { [kind |-> "absent"], [kind |-> "unreadable"], [kind |-> "invalid"] }
    \cup {[kind |-> "json", value |-> v] : v \in JsonValues}

SecretStates ==
  { Raise("StreamlitSecretNotFoundError", "No secrets found"), PyNone,
    PyStr(<< >>), PyStr(<< "sk-secret" >>) }

EnvStates == { PyNone, PyStr(<< >>), PyStr(<< "sk-env" >>) }

Contents == { PyStr(<< "Report A" >>), PyStr(<< "Report B" >>), PyNone }

Response(choices) == [t |-> "response", choices |-> choices]

ServiceOutcomes ==
  { Raise("APIConnectionError", "Connection error."),
    Raise("AuthenticationError", "Incorrect API key provided"),
    Raise("RateLimitError", "You exceeded your current quota"),
    Response(PyNone) }
    \cup UNION {{Response(PyList(s)) : s \in SeqsOfLen(Contents, n)} : n \in 0..MaxChoices}

-----------------------------------------------------------------------------
(* One run of main *)

Init ==
  /\ file \in Files
  /\ secrets \in SecretStates
  /\ environ \in EnvStates
  /\ pc = "start"
  /\ results = Unset
  /\ rows = Unset
  /\ idx_selected = -1
  /\ data = Unset
  /\ client = Unset
  /\ table_text = Unset
  /\ prompt = Unset
  /\ resp = Unset
  /\ report = Unset
  /\ gen_exit = "none"
  /\ calls = 0
  /\ exc = Unset

\* results = load_results(); the empty-state message when it is false
LoadResults ==
  /\ pc = "start"
  /\ LET r == load_results(file)
     IN  IF IsRaise(r)
         THEN /\ pc' = "crashed"
              /\ exc' = r
              /\ UNCHANGED results
         ELSE /\ results' = r
              /\ pc' = IF Truthy(r) THEN "loaded" ELSE "info"
              /\ UNCHANGED exc
  /\ UNCHANGED << file, secrets, environ, rows, idx_selected, data, client,
                  table_text, prompt, resp, report, gen_exit, calls >>

\* the loop that fills rows, then the overview table
BuildOverview ==
  /\ pc = "loaded"
  /\ LET r == Overview(results)
     IN  IF IsRaise(r)
         THEN /\ pc' = "crashed"
              /\ exc' = r
              /\ UNCHANGED rows
         ELSE /\ rows' = r
              /\ pc' = "overview"
              /\ UNCHANGED exc
  /\ UNCHANGED << file, secrets, environ, results, idx_selected, data, client,
                  table_text, prompt, resp, report, gen_exit, calls >>

\* the operator picks a client; header, grid and free text are shown
SelectClient ==
  /\ pc = "overview"
  /\ \E idx \in 0..(Len(results.v) - 1) :
       LET entry == Entry(results, idx)
           head == IF IsRaise(entry) THEN entry ELSE Header(entry)
           combined == PyGet(entry, "combined", EmptyDict)
           text == PyGet(entry, "text", PyStr(<< >>))
           grid == Grid(combined)
           bad == FirstRaise(<< entry, head, combined, text, grid >>)
       IN  /\ idx_selected' = idx
           /\ IF IsRaise(bad)
              THEN /\ pc' = "crashed"
                   /\ exc' = bad
                   /\ UNCHANGED data
              ELSE /\ data' = grid
                   /\ pc' = "detail"
                   /\ UNCHANGED exc
  /\ UNCHANGED << file, secrets, environ, results, rows, client,
                  table_text, prompt, resp, report, gen_exit, calls >>

\* the run ends with the detail view, the button not pressed
NoReport ==
  /\ pc = "detail"
  /\ pc' = "done"
  /\ UNCHANGED << file, secrets, environ, results, rows, idx_selected, data, client,
                  table_text, prompt, resp, report, gen_exit, calls, exc >>

-----------------------------------------------------------------------------
(* generate_text_report(combined, text), called when the button is pressed *)

\* the arguments main passes: the selected entry's combined and text
combined == PyGet(Entry(results, idx_selected), "combined", EmptyDict)
full_text == PyGet(Entry(results, idx_selected), "text", PyStr(<< >>))

\* client = get_openai_client()
PressButton ==
  /\ pc = "detail"
  /\ client' = get_openai_client(secrets, environ)
  /\ pc' = "gen_client"
  /\ UNCHANGED << file, secrets, environ, results, rows, idx_selected, data,
                  table_text, prompt, resp, report, gen_exit, calls, exc >>

\* if client is None: return the missing-key message
MissingKey ==
  /\ pc = "gen_client"
  /\ client = PyNone
  /\ report' = PyStr(MISSING_KEY_TEXT)
  /\ gen_exit' = "missing_key"
  /\ pc' = "gen_return"
  /\ UNCHANGED << file, secrets, environ, results, rows, idx_selected, data, client,
                  table_text, prompt, resp, calls, exc >>

\* the score table and the prompt around it
BuildPrompt ==
  /\ pc = "gen_client"
  /\ client # PyNone
  /\ LET t == TableText(combined)
     IN  IF IsRaise(t)
         THEN /\ pc' = "crashed"
              /\ exc' = t
              /\ UNCHANGED << table_text, prompt >>
         ELSE /\ table_text' = t
              /\ prompt' = Prompt(t, full_text)
              /\ pc' = "gen_call"
              /\ UNCHANGED exc
  /\ UNCHANGED << file, secrets, environ, results, rows, idx_selected, data, client,
                  resp, report, gen_exit, calls >>

\* resp = client.chat.completions.create(...): the service answers or raises
ServiceCall ==
  /\ pc = "gen_call"
  /\ \E o \in ServiceOutcomes : resp' = o
  /\ calls' = calls + 1
  /\ pc' = "gen_resp"
  /\ UNCHANGED << file, secrets, environ, results, rows, idx_selected, data, client,
                  table_text, prompt, report, gen_exit, exc >>

\* return resp.choices[0].message.content
ReturnContent ==
  /\ pc = "gen_resp"
  /\ ~IsRaise(FirstContent(resp))
  /\ report' = FirstContent(resp)
  /\ gen_exit' = "success"
  /\ pc' = "gen_return"
  /\ UNCHANGED << file, secrets, environ, results, rows, idx_selected, data, client,
                  table_text, prompt, resp, calls, exc >>


\* variant: a failed call is tried once more before the warning is returned
ExceptHandler_retry ==
  /\ pc = "gen_resp"
  /\ IsRaise(FirstContent(resp))
  /\ IF calls < 2
     THEN /\ pc' = "gen_call"
          /\ UNCHANGED << report, gen_exit >>
     ELSE /\ report' = CallErrorText(FirstContent(resp))
          /\ gen_exit' = "call_failed"
          /\ pc' = "gen_return"
  /\ UNCHANGED << file, secrets, environ, results, rows, idx_selected, data, client,
                  table_text, prompt, resp, calls, exc >>

\* except Exception as e: return the warning with the error's text
ExceptHandler ==
  /\ pc = "gen_resp"
  /\ IsRaise(FirstContent(resp))
  /\ report' = CallErrorText(FirstContent(resp))
  /\ gen_exit' = "call_failed"
  /\ pc' = "gen_return"
  /\ UNCHANGED << file, secrets, environ, results, rows, idx_selected, data, client,
                  table_text, prompt, resp, calls, exc >>

\* main shows the report and offers it for download
ShowReport ==
  /\ pc = "gen_return"
  /\ pc' = "done"
  /\ UNCHANGED << file, secrets, environ, results, rows, idx_selected, data, client,
                  table_text, prompt, resp, report, gen_exit, calls, exc >>

Next ==
  \/ LoadResults
  \/ BuildOverview
  \/ SelectClient
  \/ NoReport
  \/ PressButton
  \/ MissingKey
  \/ BuildPrompt
  \/ ServiceCall
  \/ ReturnContent
  \/ ExceptHandler
  \/ ShowReport

Spec == Init /\ [][Next]_vars

TypeOK ==
  /\ pc \in {"start", "info", "loaded", "overview", "detail", "gen_client", "gen_call",
             "gen_resp", "gen_return", "done", "crashed"}
  /\ calls \in 0..1
  /\ gen_exit \in {"none", "missing_key", "call_failed", "success"}

-----------------------------------------------------------------------------
(* Vocabulary of the properties *)

\* sub occurs in s as a run of consecutive pieces
Contains(s, sub) ==
  \E i \in 0..(Len(s) - Len(sub)) : SubSeq(s, i + 1, i + Len(sub)) = sub

\* a credential source holds a usable value
Present(x) == ~IsRaise(x) /\ x # PyNone /\ x # PyStr(<< >>)

\* generate_text_report has returned to main
Returned == gen_exit # "none"

\* the call was made and raised, or its response has no first completion
CallFailed ==
  /\ resp # Unset
  /\ \/ IsRaise(resp)
     \/ resp.choices.t # "list"
     \/ Len(resp.choices.v) = 0

CallSucceeded == resp # Unset /\ ~CallFailed

\* str(e) of the error the try block met
ErrorDescription ==
  IF IsRaise(resp) THEN resp.msg
  ELSE IF resp.choices.t # "list" THEN "'NoneType' object is not subscriptable"
  ELSE "list index out of range"

PotentialSet == {POTENTIALS[i] : i \in 1..Len(POTENTIALS)}
ColumnSet == {COLUMNS[i] : i \in 1..Len(COLUMNS)}

\* the value a combined mapping stores for (p, c), zero when it stores none
Stored(c, p, a) ==
  IF p \in DOMAIN c.v /\ a \in DOMAIN c.v[p].v THEN c.v[p].v[a] ELSE PyInt(0)

\* the lines of a text, cut at the line breaks
RECURSIVE SplitLines(_)
SplitLines(s) ==
  IF \A i \in 1..Len(s) : s[i] # "\n" THEN << s >>
  ELSE LET k == CHOOSE i \in 1..Len(s) : s[i] = "\n" /\ \A j \in 1..(i - 1) : s[j] # "\n"
       IN  << SubSeq(s, 1, k - 1) >> \o SplitLines(SubSeq(s, k + 1, Len(s)))

ExpectedLine(c, p) ==
  << p, ": c1=" >> \o Format(Stored(c, p, "c1")) \o << "  c2=" >>
    \o Format(Stored(c, p, "c2")) \o << "  c3=" >> \o Format(Stored(c, p, "c3"))

TableAsExpected(c) ==
  LET lines == SplitLines(table_text.v)
  IN  /\ Len(lines) = 9
      /\ \A i \in 1..9 : lines[i] = ExpectedLine(c, POTENTIALS[i])

GridAsExpected(c) ==
  /\ Len(data.v) = 9
  /\ \A i \in 1..9 :
       /\ data.v[i].potential = POTENTIALS[i]
       /\ data.v[i].c1 = Stored(c, POTENTIALS[i], "c1")
       /\ data.v[i].c2 = Stored(c, POTENTIALS[i], "c2")
       /\ data.v[i].c3 = Stored(c, POTENTIALS[i], "c3")

\* a combined mapping without its entries outside the closed sets
Known(c) ==
  PyDict([p \in DOMAIN c.v \cap PotentialSet |->
            PyDict([a \in DOMAIN c.v[p].v \cap ColumnSet |-> c.v[p].v[a]])])

RECURSIVE SumCells(_, _)
SumCells(c, cells) ==
  IF cells = {} THEN 0
  ELSE LET x == CHOOSE y \in cells : TRUE
       IN  c.v[x[1]].v[x[2]].v + SumCells(c, cells \ {x})

\* the sum of the scores a record stores under the fixed potentials and axes
KnownSum(r) ==
  IF "combined" \notin DOMAIN r.v THEN 0
  ELSE LET c == r.v["combined"]
       IN  SumCells(c, {x \in PotentialSet \X ColumnSet :
                          x[1] \in DOMAIN c.v /\ x[2] \in DOMAIN c.v[x[1]].v})

\* the store holds a list of records whose known entries are scores
AllRecords == WellFormedRecords \cup {OnlyCombined(FullCombined)}
WellFormedStore ==
  /\ file.kind = "json"
  /\ file.value.t = "list"
  /\ \A i \in 1..Len(file.value.v) : file.value.v[i] \in AllRecords

-----------------------------------------------------------------------------
(* Properties *)

\* C1: with no credential in the secret store (nothing stored, or the access
\* raises) and OPENAI_API_KEY unset in the environment, generate_text_report
\* returns a string containing the exact missing-key warning and no call to
\* the text-generation service is made.
C1_MissingKeyWarning ==
  ((IsRaise(secrets) \/ secrets = PyNone) /\ environ = PyNone)
    => /\ calls = 0
       /\ pc \notin {"gen_call", "gen_resp"}
       /\ Returned => /\ gen_exit = "missing_key"
                      /\ report.t = "str"
                      /\ Contains(report.v, MISSING_KEY_TEXT)

C1_Witness ==
  /\ IsRaise(secrets)
  /\ environ = PyNone
  /\ pc = "gen_return"
  /\ report = PyStr(MISSING_KEY_TEXT)

\* C2: when a client was built and the service call raises (or the response
\* has no first completion), generate_text_report returns a string that
\* starts with the warning sign and contains the error's text, and nothing
\* is raised to main.
C2_CallFailureWarning ==
  /\ resp # Unset => pc # "crashed"
  /\ (Returned /\ CallFailed)
       => /\ report.t = "str"
          /\ Len(report.v) > 0
          /\ Head(report.v) = WARN
          /\ \E i \in 1..Len(report.v) : report.v[i] = ErrorDescription

C2_Witness ==
  /\ pc = "gen_return"
  /\ resp = Response(PyList(<< >>))
  /\ gen_exit = "call_failed"

\* C3: when the service call succeeds, generate_text_report returns exactly
\* the content of the first completion, whatever completions follow it.
C3_FirstCompletionVerbatim ==
  (Returned /\ CallSucceeded)
    => /\ gen_exit = "success"
       /\ report = resp.choices.v[1]

C3_Witness ==
  /\ pc = "gen_return"
  /\ CallSucceeded
  /\ Len(resp.choices.v) = 2
  /\ resp.choices.v[1] # resp.choices.v[2]
  /\ report = PyStr(<< "Report A" >>)

\* C4: load_results never raises, and it returns the empty list when the
\* store file does not exist and when its content is not parseable.
C4_LoadFailSoft ==
  /\ pc = "crashed" => results # Unset
  /\ (pc # "start" /\ file.kind \in {"absent", "invalid"})
       => /\ results = PyList(<< >>)
          /\ pc = "info"

C4_Witness ==
  /\ file.kind = "invalid"
  /\ pc = "info"
  /\ results = PyList(<< >>)

\* C5: the score table of the prompt and the grid of the detail view have
\* nine rows, one per potential in the order of POTENTIALS, each with c1, c2
\* and c3: the stored value where combined has one, zero where it has none.
C5_NineRowsZeroDefault ==
  /\ data # Unset => GridAsExpected(combined)
  /\ table_text # Unset => TableAsExpected(combined)

C5_Witness ==
  /\ pc = "gen_call"
  /\ DOMAIN combined.v = {"Rubin"}
  /\ DOMAIN combined.v["Rubin"].v = {"c2"}
  /\ data # Unset
  /\ table_text # Unset

\* C6: whatever the store file holds, a run of main ends with the
\* empty-state message or a rendered view, never with an exception.
C6_DamagedStoreNeverCrashes == pc # "crashed"

\* C7: generate_text_report takes exactly one of its three exits and hands
\* main a string, never an exception and never a value that is not a string.
C7_GenerateTotal ==
  /\ client # Unset => pc # "crashed"
  /\ Returned => /\ gen_exit \in {"missing_key", "call_failed", "success"}
                 /\ report.t = "str"

\* C8: the secret store is asked first and the environment second; a value in
\* the secret store is used whatever the environment holds, the environment's
\* value is used only when the secret store gives none or raises, and no
\* client is built only when neither gives one.
C8_SecretStoreFirst ==
  client # Unset
    => /\ Present(secrets) => client = OpenAI(secrets)
       /\ (~Present(secrets) /\ Present(environ)) => client = OpenAI(environ)
       /\ (client # PyNone /\ client.api_key # secrets) => ~Present(secrets)
       /\ client = PyNone <=> (~Present(secrets) /\ ~Present(environ))

C8_Witness ==
  /\ pc = "gen_client"
  /\ Present(secrets)
  /\ Present(environ)
  /\ secrets # environ
  /\ client = OpenAI(secrets)

\* C9: one invocation of generate_text_report makes at most one service call,
\* exactly one when a credential is resolved and none otherwise, and a failed
\* call is followed by the warning, not by a second call.
C9_NoRetry ==
  /\ calls <= 1
  /\ Returned => calls = (IF Present(secrets) \/ Present(environ) THEN 1 ELSE 0)
  /\ (Returned /\ CallFailed) => (gen_exit = "call_failed" /\ calls = 1)

C9_Witness ==
  /\ pc = "gen_return"
  /\ IsRaise(resp)
  /\ gen_exit = "call_failed"
  /\ calls = 1

\* C10: an overview row's total is the sum of c1, c2 and c3 over the nine
\* fixed potentials, missing ones counting zero; entries of combined under
\* other potential or axis names add nothing to the total, the grid or the
\* prompt table and cause no error.
C10_TotalOverKnownEntries ==
  WellFormedStore
    => /\ pc # "crashed"
       /\ rows # Unset
            => \A i \in 1..Len(rows.v) : rows.v[i].total = PyInt(KnownSum(results.v[i]))
       /\ data # Unset => GridAsExpected(Known(combined))
       /\ table_text # Unset => TableAsExpected(Known(combined))

C10_Witness ==
  /\ pc = "gen_call"
  /\ file.value = PyList(<< Record(ExampleCombined, TIMESTAMP) >>)
  /\ rows.v[1].total = PyInt(4)

====
